---- MODULE Spec2Model ----
(***************************************************************************)
(* BlogMatic (src/App.py): a Flask application that meters an external     *)
(* text-generation call with per-account free credits or a subscription,   *)
(* and keeps the subscription flag in step with Stripe through a webhook.  *)
(*                                                                         *)
(* All request handlers share ONE sqlite3 connection `conn` and ONE cursor *)
(* `c` (lines 37-38, check_same_thread=False) and run on the threads of    *)
(* the Flask server, so the statements of different requests interleave.   *)
(* Every c.execute / c.fetchone / conn.commit / external call is one       *)
(* atomic step of the model (the sqlite3 module serialises the calls on a  *)
(* connection); local computation is folded into the step that precedes it.*)
(***************************************************************************)
EXTENDS Integers, Sequences, FiniteSets, Bags, TLC

VARIABLES
    users,            \* table users, as the shared connection sees it
    blogs,            \* table blogs, as the shared connection sees it
    committed,        \* both tables as of the last conn.commit()
    cursor,           \* rows the shared cursor `c` has yet to return
    stripeCustomers,  \* the billing provider's customers (their emails)
    stripeSessions,   \* customers for which a checkout session was opened
    reqs,             \* bag of the requests received: in flight or answered
    start             \* the tables and the provider's customers initially,
                      \* and the load: requests sent, server threads

vars == <<users, blogs, committed, cursor, stripeCustomers, stripeSessions,
          reqs, start>>

(* ------------------------------ bounds -------------------------------- *)

\* number of requests the server receives in one behaviour
MaxReqs == 2
\* number of server threads: requests being handled at the same time
MaxInFlight == 2
\* requests received from the clients of a fresh installation (SeqSpec)
SeqReqs == 5

(* ------------------------- program constants -------------------------- *)

\* free_credits INTEGER DEFAULT 3
DefaultCredits == 3
\* SQL NULL / Python None of a column value (stripe_customer_id TEXT)
NULL == 0
\* customer.id of the n-th customer of the billing provider is CusBase + n:
\* provider ids are disjoint from the row ids of the users table
CusBase == 100

Emails == {"a", "b"}
Passwords == {"p", "q"}

COMPLETED == "checkout.session.completed"
EventTypes == {COMPLETED, "invoice.paid"}

(* ------------------------------ tables -------------------------------- *)

\* a row of table users; its id is its position (AUTOINCREMENT, no deletes)
UserRow(email, password, subscribed, free_credits, stripe_customer_id) ==
    [email |-> email, password |-> password, subscribed |-> subscribed,
     free_credits |-> free_credits, stripe_customer_id |-> stripe_customer_id]

\* a row of table blogs (topic, content and created_at carry no behaviour)
BlogRow(user_id) == [user_id |-> user_id]

\* ids of the rows WHERE email=?
IdsByEmail(email) == {i \in DOMAIN users : users[i].email = email}

\* the one row of an account (email is UNIQUE)
IdOf(email) == CHOOSE i \in IdsByEmail(email) : TRUE

Registered(email) == IdsByEmail(email) # {}

\* the result of a SELECT ... WHERE email=? that matches the rows `rows`
\* (one at most, email being UNIQUE), as the cursor will return them
ResultRows(rows) ==
    IF rows = {} THEN <<>> ELSE << CHOOSE row \in rows : TRUE >>

\* c.fetchone(): the next row of the shared cursor, <<>> standing for None
FetchOne == IF Len(cursor) = 0 THEN <<>> ELSE Head(cursor)

\* the shared cursor after c.fetchone()
AfterFetch == IF Len(cursor) = 0 THEN <<>> ELSE Tail(cursor)

\* conn.commit(): everything written on the shared connection becomes durable
Commit == committed' = [users |-> users, blogs |-> blogs]

(* ----------------------------- requests ------------------------------- *)

\* A request: the handler (kind), the statement it executes next (pc), the
\* handler's local variables and, once answered, its HTTP status.  email is
\* the token's identity (webhook: customer.email once retrieved);
\* customer_id is checkout's customer_id / the webhook's session.customer;
\* event_type and signature are what a webhook delivery carries.
Blank ==
    [pc |-> "done", kind |-> "", email |-> "", status |-> 0, user_id |-> 0,
     free_credits |-> 0, subscribed |-> 0, customer_id |-> NULL,
     error |-> "", event_type |-> "", signature |-> ""]

\* a request that has just arrived and executed its first statement
Request(kind, pc, email) ==
    [Blank EXCEPT !.kind = kind, !.pc = pc, !.email = email]

\* the handler returns: locals are gone, the answer stays
Done(rec, status) ==
    [Blank EXCEPT !.kind = rec.kind, !.email = rec.email, !.status = status,
                  !.customer_id = IF rec.kind \in {"checkout", "webhook"}
                                  THEN rec.customer_id ELSE NULL,
                  !.event_type = rec.event_type,
                  !.signature = rec.signature]

\* the handler raises: Flask answers 500, the exception is logged
Raise(rec, exception) == [Done(rec, 500) EXCEPT !.error = exception]

Running == {rec \in BagToSet(reqs) : rec.pc # "done"}

InFlight == BagCardinality([rec \in Running |-> reqs[rec]])

\* a request arrives, a free server thread executes its first statement
Arrives(rec) ==
    /\ BagCardinality(reqs) < start.requests
    /\ InFlight < start.threads
    /\ reqs' = reqs (+) SetToBag({rec})

\* request rec executes a statement and continues as new
Goto(rec, new) == reqs' = (reqs (-) SetToBag({rec})) (+) SetToBag({new})

\* request rec is about to execute the statement at pc
At(rec, pc) == rec \in BagToSet(reqs) /\ rec.pc = pc

(* ----------------------------- /api/generate -------------------------- *)

\* line 96-97: identity from the token, SELECT id, free_credits, subscribed
GenerateSelect(email) ==
    /\ Arrives(Request("generate", "gen_fetch", email))
    /\ cursor' = ResultRows({<<i, users[i].free_credits, users[i].subscribed>> :
                                i \in IdsByEmail(email)})
    /\ UNCHANGED <<users, blogs, committed, stripeCustomers, stripeSessions,
                   start>>

\* variant of Denied: the check lets a request with no credit left pass
Denied_BelowZero(free_credits, subscribed) ==
    free_credits < 0 /\ subscribed = 0

\* the entitlement check of line 105 on the fetched row
Denied(free_credits, subscribed) == free_credits <= 0 /\ subscribed = 0

\* variant of Charged: the statement writes the row back from the handler's
\* locals, the subscribed flag it read (0 on this branch) included
Charged_WritesFlagBack(user_id) ==
    [i \in DOMAIN users |->
       IF i = user_id
       THEN [users[i] EXCEPT !.free_credits = @ - 1, !.subscribed = 0]
       ELSE users[i]]

\* users after UPDATE users SET free_credits = free_credits - 1 WHERE id=?
Charged(user_id) ==
    [i \in DOMAIN users |->
       IF i = user_id THEN [users[i] EXCEPT !.free_credits = @ - 1]
       ELSE users[i]]

\* variant of GenerateFetch: the credit is taken before the entitlement
\* check, a denied request has been charged
GenerateFetch_ChargesFirst(rec) ==
    /\ At(rec, "gen_fetch")
    /\ cursor' = AfterFetch
    /\ LET user == FetchOne
       IN  IF Len(user) = 0
           THEN Goto(rec, Done(rec, 404)) /\ UNCHANGED users
           ELSE IF Len(user) # 3
           THEN Goto(rec, Raise(rec, "ValueError")) /\ UNCHANGED users
           ELSE IF Denied(user[2], user[3])
           THEN Goto(rec, Done(rec, 402)) /\ users' = Charged(user[1])
           ELSE /\ Goto(rec, [rec EXCEPT !.pc = "gen_call",
                             !.user_id = user[1], !.free_credits = user[2],
                             !.subscribed = user[3]])
                /\ UNCHANGED users
    /\ UNCHANGED <<blogs, committed, stripeCustomers, stripeSessions, start>>

\* lines 98-106: fetchone, 404 / unpack / 402
GenerateFetch(rec) ==
    /\ At(rec, "gen_fetch")
    /\ cursor' = AfterFetch
    /\ LET user == FetchOne
       IN  IF Len(user) = 0
           THEN Goto(rec, Done(rec, 404))
           ELSE IF Len(user) # 3
           THEN Goto(rec, Raise(rec, "ValueError"))
           ELSE IF Denied(user[2], user[3])
           THEN Goto(rec, Done(rec, 402))
           ELSE Goto(rec, [rec EXCEPT !.pc = "gen_call",
                             !.user_id = user[1], !.free_credits = user[2],
                             !.subscribed = user[3]])
    /\ UNCHANGED <<users, blogs, committed, stripeCustomers, stripeSessions,
                   start>>

GenOutcomes == {"ok", "OpenAIError", "JSONDecodeError"}

\* variant of GenerateCall: the credit is charged although generation failed
GenerateCall_ChargeOnFailure(rec, outcome) ==
    /\ At(rec, "gen_call")
    /\ IF outcome = "ok"
       THEN Goto(rec, [rec EXCEPT !.pc = "gen_insert"]) /\ UNCHANGED users
       ELSE Goto(rec, Raise(rec, outcome)) /\ users' = Charged(rec.user_id)
    /\ UNCHANGED <<blogs, committed, cursor, stripeCustomers,
                   stripeSessions, start>>

\* lines 120-126: the external generation call and json.loads of its output
GenerateCall(rec, outcome) ==
    /\ At(rec, "gen_call")
    /\ IF outcome = "ok"
       THEN Goto(rec, [rec EXCEPT !.pc = "gen_insert"])
       ELSE Goto(rec, Raise(rec, outcome))
    /\ UNCHANGED <<users, blogs, committed, cursor, stripeCustomers,
                   stripeSessions, start>>

\* lines 128-131: INSERT INTO blogs
GenerateInsert(rec) ==
    /\ At(rec, "gen_insert")
    /\ blogs' = Append(blogs, BlogRow(rec.user_id))
    /\ cursor' = <<>>
    /\ Goto(rec, [rec EXCEPT !.pc = IF rec.subscribed = 0 THEN "gen_update"
                                                          ELSE "gen_commit"])
    /\ UNCHANGED <<users, committed, stripeCustomers, stripeSessions,
                   start>>

\* lines 133-137: UPDATE users SET free_credits = free_credits - 1 WHERE id=?
GenerateUpdate(rec) ==
    /\ At(rec, "gen_update")
    /\ users' = Charged(rec.user_id)
    /\ cursor' = <<>>
    /\ Goto(rec, [rec EXCEPT !.pc = "gen_commit"])
    /\ UNCHANGED <<blogs, committed, stripeCustomers, stripeSessions,
                   start>>

\* lines 139-140: conn.commit(), 200 with the content
GenerateCommit(rec) ==
    /\ At(rec, "gen_commit")
    /\ Commit
    /\ Goto(rec, Done(rec, 200))
    /\ UNCHANGED <<users, blogs, cursor, stripeCustomers, stripeSessions,
                   start>>

(* ----------------------------- /api/register -------------------------- *)

\* lines 66-71, 75-76: INSERT INTO users (email, password); the UNIQUE
\* constraint on email raises and the bare except answers 400
RegisterInsert(email, password) ==
    /\ cursor' = <<>>
    /\ IF Registered(email)
       THEN /\ Arrives(Done(Request("register", "reg_insert", email), 400))
            /\ UNCHANGED users
       ELSE /\ Arrives(Request("register", "reg_commit", email))
            /\ users' = Append(users,
                          UserRow(email, password, 0, DefaultCredits, NULL))
    /\ UNCHANGED <<blogs, committed, stripeCustomers, stripeSessions,
                   start>>

\* lines 72-74: conn.commit(), 200 with a token
RegisterCommit(rec) ==
    /\ At(rec, "reg_commit")
    /\ Commit
    /\ Goto(rec, Done(rec, 200))
    /\ UNCHANGED <<users, blogs, cursor, stripeCustomers, stripeSessions,
                   start>>

(* ------------------------------ /api/login ---------------------------- *)

\* lines 81-85: SELECT * FROM users WHERE email=? AND password=?
LoginSelect(email, password) ==
    /\ Arrives(Request("login", "login_fetch", email))
    /\ cursor' = ResultRows(
                   {<<i, users[i].email, users[i].password,
                      users[i].subscribed, users[i].free_credits,
                      users[i].stripe_customer_id>> :
                    i \in {j \in IdsByEmail(email) :
                             users[j].password = password}})
    /\ UNCHANGED <<users, blogs, committed, stripeCustomers, stripeSessions,
                   start>>

\* lines 86-89: a token if fetchone() returns a row, else 401
LoginFetch(rec) ==
    /\ At(rec, "login_fetch")
    /\ cursor' = AfterFetch
    /\ Goto(rec, Done(rec, IF Len(FetchOne) # 0 THEN 200 ELSE 401))
    /\ UNCHANGED <<users, blogs, committed, stripeCustomers, stripeSessions,
                   start>>

(* ----------------------------- /api/checkout -------------------------- *)

\* the customers the billing provider knows
CustomerIds == {CusBase + n : n \in DOMAIN stripeCustomers}

\* the email the provider holds for a customer
CustomerEmail(customer) == stripeCustomers[customer - CusBase]

\* lines 147-148: identity from the token, SELECT stripe_customer_id
CheckoutSelect(email) ==
    /\ Arrives(Request("checkout", "co_fetch", email))
    /\ cursor' = ResultRows({<< users[i].stripe_customer_id >> :
                                i \in IdsByEmail(email)})
    /\ UNCHANGED <<users, blogs, committed, stripeCustomers, stripeSessions,
                   start>>

\* line 151: `row and row[0]`
HasCustomer(row) == Len(row) # 0 /\ row[1] # NULL

\* lines 149-153: fetchone, reuse the stored customer or go on to create one
CheckoutFetch(rec) ==
    /\ At(rec, "co_fetch")
    /\ cursor' = AfterFetch
    /\ LET row == FetchOne
       IN  IF HasCustomer(row)
           THEN Goto(rec, [rec EXCEPT !.pc = "co_session",
                                      !.customer_id = row[1]])
           ELSE Goto(rec, [rec EXCEPT !.pc = "co_create"])
    /\ UNCHANGED <<users, blogs, committed, stripeCustomers, stripeSessions,
                   start>>

\* lines 154-155: stripe.Customer.create(email=email); the provider may fail
CheckoutCreateCustomer(rec, ok) ==
    /\ At(rec, "co_create")
    /\ IF ok
       THEN /\ stripeCustomers' = Append(stripeCustomers, rec.email)
            /\ Goto(rec, [rec EXCEPT !.pc = "co_update",
                            !.customer_id = CusBase + Len(stripeCustomers) + 1])
       ELSE /\ Goto(rec, Raise(rec, "StripeError"))
            /\ UNCHANGED stripeCustomers
    /\ UNCHANGED <<users, blogs, committed, cursor, stripeSessions,
                   start>>

\* lines 156-159: UPDATE users SET stripe_customer_id=? WHERE email=?
CheckoutUpdate(rec) ==
    /\ At(rec, "co_update")
    /\ users' = [i \in DOMAIN users |->
                   IF users[i].email = rec.email
                   THEN [users[i] EXCEPT !.stripe_customer_id = rec.customer_id]
                   ELSE users[i]]
    /\ cursor' = <<>>
    /\ Goto(rec, [rec EXCEPT !.pc = "co_commit"])
    /\ UNCHANGED <<blogs, committed, stripeCustomers, stripeSessions,
                   start>>

\* line 160: conn.commit()
CheckoutCommit(rec) ==
    /\ At(rec, "co_commit")
    /\ Commit
    /\ Goto(rec, [rec EXCEPT !.pc = "co_session"])
    /\ UNCHANGED <<users, blogs, cursor, stripeCustomers, stripeSessions,
                   start>>

\* lines 162-170: stripe.checkout.Session.create(customer=customer_id); the
\* provider fails on its own account or because it knows no such customer
CheckoutSession(rec, ok) ==
    /\ At(rec, "co_session")
    /\ IF ok /\ rec.customer_id \in CustomerIds
       THEN /\ stripeSessions' = stripeSessions \cup {rec.customer_id}
            /\ Goto(rec, Done(rec, 200))
       ELSE /\ Goto(rec, Raise(rec, "StripeError"))
            /\ UNCHANGED stripeSessions
    /\ UNCHANGED <<users, blogs, committed, cursor, stripeCustomers,
                   start>>

(* ------------------------------- /webhook ----------------------------- *)

\* what a delivered payload claims: its kind and the customer of its session
Events == [type : EventTypes, customer : CustomerIds]

\* the request carrying `event`, as it arrives
WebhookRequest(sig_ok, event) ==
    [Request("webhook", "wh_retrieve", "") EXCEPT
       !.customer_id = event.customer, !.event_type = event.type,
       !.signature = IF sig_ok THEN "valid" ELSE "invalid"]

\* variant of Granted: the statement flips the flag instead of setting it
Granted_Toggle(email) ==
    [i \in DOMAIN users |->
       IF users[i].email = email
       THEN [users[i] EXCEPT !.subscribed = 1 - @]
       ELSE users[i]]

\* users after UPDATE users SET subscribed=1 WHERE email=?
Granted(email) ==
    [i \in DOMAIN users |->
       IF users[i].email = email THEN [users[i] EXCEPT !.subscribed = 1]
       ELSE users[i]]

\* the provider signs a payment-completed event only for a checkout session
\* it holds; a payload with a bad signature may claim anything
Deliverable(sig_ok, event) ==
    (sig_ok /\ event.type = COMPLETED) => event.customer \in stripeSessions

\* variant of WebhookConstructEvent: the payload is applied before its
\* signature is verified
WebhookConstructEvent_VerifyLate(sig_ok, event) ==
    /\ Deliverable(sig_ok, event)
    /\ IF ~sig_ok
       THEN /\ Arrives(Done(WebhookRequest(sig_ok, event), 400))
            /\ users' = IF event.type = COMPLETED
                        THEN Granted(CustomerEmail(event.customer))
                        ELSE users
       ELSE /\ IF event.type = COMPLETED
               THEN Arrives(WebhookRequest(sig_ok, event))
               ELSE Arrives(Done(WebhookRequest(sig_ok, event), 200))
            /\ UNCHANGED users
    /\ UNCHANGED <<blogs, committed, cursor, stripeCustomers,
                   stripeSessions, start>>

\* variant of WebhookConstructEvent: a payload whose signature fails is
\* dropped but acknowledged with 200
WebhookConstructEvent_AcksRejected(sig_ok, event) ==
    /\ Deliverable(sig_ok, event)
    /\ IF sig_ok /\ event.type = COMPLETED
       THEN Arrives(WebhookRequest(sig_ok, event))
       ELSE Arrives(Done(WebhookRequest(sig_ok, event), 200))
    /\ UNCHANGED <<users, blogs, committed, cursor, stripeCustomers,
                   stripeSessions, start>>

\* variant of WebhookConstructEvent: the test of the event's type (line
\* 185) is missing, every verified event is processed as a payment
WebhookConstructEvent_AnyKind(sig_ok, event) ==
    /\ Deliverable(sig_ok, event)
    /\ IF ~sig_ok
       THEN Arrives(Done(WebhookRequest(sig_ok, event), 400))
       ELSE Arrives(WebhookRequest(sig_ok, event))
    /\ UNCHANGED <<users, blogs, committed, cursor, stripeCustomers,
                   stripeSessions, start>>

\* lines 175-185, 194: construct_event raises on a bad signature (400); a
\* verified event of another kind is answered 200 at once
WebhookConstructEvent(sig_ok, event) ==
    /\ Deliverable(sig_ok, event)
    /\ IF ~sig_ok
       THEN Arrives(Done(WebhookRequest(sig_ok, event), 400))
       ELSE IF event.type = COMPLETED
       THEN Arrives(WebhookRequest(sig_ok, event))
       ELSE Arrives(Done(WebhookRequest(sig_ok, event), 200))
    /\ UNCHANGED <<users, blogs, committed, cursor, stripeCustomers,
                   stripeSessions, start>>

\* lines 186-187: stripe.Customer.retrieve(session.customer); may fail
WebhookRetrieve(rec, ok) ==
    /\ At(rec, "wh_retrieve")
    /\ IF ok
       THEN Goto(rec, [rec EXCEPT !.pc = "wh_update",
                                  !.email = CustomerEmail(rec.customer_id)])
       ELSE Goto(rec, Raise(rec, "StripeError"))
    /\ UNCHANGED <<users, blogs, committed, cursor, stripeCustomers,
                   stripeSessions, start>>

\* variant of WebhookUpdate: the WHERE clause matches no row
WebhookUpdate_NoMatch(rec) ==
    /\ At(rec, "wh_update")
    /\ cursor' = <<>>
    /\ Goto(rec, [rec EXCEPT !.pc = "wh_commit"])
    /\ UNCHANGED <<users, blogs, committed, stripeCustomers, stripeSessions,
                   start>>

\* lines 188-191: UPDATE users SET subscribed=1 WHERE email=?
WebhookUpdate(rec) ==
    /\ At(rec, "wh_update")
    /\ users' = Granted(rec.email)
    /\ cursor' = <<>>
    /\ Goto(rec, [rec EXCEPT !.pc = "wh_commit"])
    /\ UNCHANGED <<blogs, committed, stripeCustomers, stripeSessions,
                   start>>

\* lines 192, 194: conn.commit(), 200
WebhookCommit(rec) ==
    /\ At(rec, "wh_commit")
    /\ Commit
    /\ Goto(rec, Done(rec, 200))
    /\ UNCHANGED <<users, blogs, cursor, stripeCustomers, stripeSessions,
                   start>>

(* ------------------------------- initial ------------------------------ *)

\* The database file and the provider's customers outlive the process
\* (CREATE TABLE IF NOT EXISTS, lines 40-59): the program starts on any
\* state earlier runs left behind.  An account with k credits left has
\* generated DefaultCredits - k posts; a stored customer was created by
\* checkout for that account's email, which also opened a session for it;
\* a subscriber went through checkout.
\* An account not yet subscribed may also have run two checkouts at once
\* (lines 148-159): both created a customer, the row keeps the later one
\* and the earlier one stays at the provider (stale_customer).
AccountStates ==
    {s \in [free_credits : 0 .. DefaultCredits, subscribed : {0, 1},
            has_customer : BOOLEAN, stale_customer : BOOLEAN] :
        /\ s.subscribed = 1 => s.has_customer
        /\ s.stale_customer => s.has_customer /\ s.subscribed = 0}

\* the initial states of the model: account "a" in any state, account "b"
\* not registered yet or registered with its credits used up
InitAccounts ==
    {<< [email |-> "a", st |-> s] >> : s \in AccountStates}
    \cup {<< [email |-> "a", st |-> s],
             [email |-> "b", st |-> [free_credits |-> 0, subscribed |-> 0,
                                     has_customer |-> FALSE,
                                     stale_customer |-> FALSE]] >> :
          s \in AccountStates}

\* provider customers of the accounts `as`, in row order
RECURSIVE InitCustomers(_)
InitCustomers(as) ==
    IF Len(as) = 0 THEN <<>>
    ELSE LET rest == InitCustomers(SubSeq(as, 1, Len(as) - 1))
             acc == as[Len(as)]
         IN  IF acc.st.stale_customer THEN rest \o <<acc.email, acc.email>>
             ELSE IF acc.st.has_customer THEN Append(rest, acc.email)
             ELSE rest

\* blogs rows of the accounts `as`, in row order
RECURSIVE InitBlogs(_)
InitBlogs(as) ==
    IF Len(as) = 0 THEN <<>>
    ELSE InitBlogs(SubSeq(as, 1, Len(as) - 1))
         \o [n \in 1 .. (DefaultCredits - as[Len(as)].st.free_credits) |->
               BlogRow(Len(as))]

Init ==
    \E as \in InitAccounts :
        /\ stripeCustomers = InitCustomers(as)
        /\ users = [i \in DOMAIN as |->
               UserRow(as[i].email, "p", as[i].st.subscribed,
                       as[i].st.free_credits,
                       IF as[i].st.has_customer
                       THEN CusBase + Len(InitCustomers(SubSeq(as, 1, i)))
                       ELSE NULL)]
        /\ blogs = InitBlogs(as)
        /\ committed = [users |-> users, blogs |-> blogs]
        /\ cursor = <<>>
        /\ stripeSessions = CustomerIds
        /\ reqs = EmptyBag
        /\ start = [users |-> users, blogs |-> blogs,
                     customers |-> stripeCustomers,
                     requests |-> MaxReqs, threads |-> MaxInFlight]

Next ==
    \/ \E email \in Emails, password \in Passwords :
           RegisterInsert(email, password)
    \/ \E rec \in Running : RegisterCommit(rec)
    \/ \E email \in Emails, password \in Passwords :
           LoginSelect(email, password)
    \/ \E rec \in Running : LoginFetch(rec)
    \/ \E email \in Emails : GenerateSelect(email)
    \/ \E rec \in Running : GenerateFetch(rec)
    \/ \E rec \in Running, outcome \in GenOutcomes : GenerateCall(rec, outcome)
    \/ \E rec \in Running : GenerateInsert(rec)
    \/ \E rec \in Running : GenerateUpdate(rec)
    \/ \E rec \in Running : GenerateCommit(rec)
    \/ \E email \in Emails : CheckoutSelect(email)
    \/ \E rec \in Running : CheckoutFetch(rec)
    \/ \E rec \in Running, ok \in BOOLEAN : CheckoutCreateCustomer(rec, ok)
    \/ \E rec \in Running : CheckoutUpdate(rec)
    \/ \E rec \in Running : CheckoutCommit(rec)
    \/ \E rec \in Running, ok \in BOOLEAN : CheckoutSession(rec, ok)
    \/ \E sig_ok \in BOOLEAN, event \in Events :
           WebhookConstructEvent(sig_ok, event)
    \/ \E rec \in Running, ok \in BOOLEAN : WebhookRetrieve(rec, ok)
    \/ \E rec \in Running : WebhookUpdate(rec)
    \/ \E rec \in Running : WebhookCommit(rec)

Spec == Init /\ [][Next]_vars

\* A fresh installation (empty tables, lines 40-59) whose clients register
\* and generate one request at a time: at most SeqReqs requests, each
\* answered before the next arrives.
SeqInit ==
    /\ users = <<>>
    /\ blogs = <<>>
    /\ committed = [users |-> users, blogs |-> blogs]
    /\ cursor = <<>>
    /\ stripeCustomers = <<>>
    /\ stripeSessions = {}
    /\ reqs = EmptyBag
    /\ start = [users |-> users, blogs |-> blogs,
                customers |-> stripeCustomers,
                requests |-> SeqReqs, threads |-> 1]

SeqNext ==
    \/ \E email \in Emails, password \in Passwords :
           RegisterInsert(email, password)
    \/ \E rec \in Running : RegisterCommit(rec)
    \/ \E email \in Emails : GenerateSelect(email)
    \/ \E rec \in Running : GenerateFetch(rec)
    \/ \E rec \in Running, outcome \in GenOutcomes : GenerateCall(rec, outcome)
    \/ \E rec \in Running : GenerateInsert(rec)
    \/ \E rec \in Running : GenerateUpdate(rec)
    \/ \E rec \in Running : GenerateCommit(rec)

SeqSpec == SeqInit /\ [][SeqNext]_vars

(* ======================= properties of the model ====================== *)

\* the row of a registered account
Account(email) == users[IdOf(email)]

\* number of requests received that satisfy P
Count(P(_)) ==
    BagCardinality([rec \in {x \in BagToSet(reqs) : P(x)} |-> reqs[rec]])

\* in this step request rec executed a statement
Stepped(rec) == CopiesIn(rec, reqs') < CopiesIn(rec, reqs)

\* the request that took this step continues (or is answered) as new
Became(new) == CopiesIn(new, reqs') > CopiesIn(new, reqs)

Min(x, y) == IF x <= y THEN x ELSE y
Max(x, y) == IF x >= y THEN x ELSE y

\* C1: in every reachable state every account has free_credits >= 0,
\* whatever the interleaving of the requests.
C1_CreditsNeverNegative ==
    \A i \in DOMAIN users : users[i].free_credits >= 0

\* C2: a never-subscribed account starts with K credits and N generate
\* requests are issued for it, every external generation call succeeding
\* and every request getting its entitlement decision: exactly min(N, K)
\* are answered 200, the other N - min(N, K) are answered 402, and
\* free_credits ends at max(0, K - successes).
C2_ExactlyMinAllowed ==
    \A i \in DOMAIN start.users :
        LET e == start.users[i].email
            K == start.users[i].free_credits
            N == BagCardinality(reqs)
            allowed == Count(LAMBDA x : x.status = 200)
            denied == Count(LAMBDA x : x.status = 402)
        IN  (/\ start.users[i].subscribed = 0
             /\ N > 0
             /\ \A rec \in BagToSet(reqs) :
                    /\ rec.kind = "generate" /\ rec.email = e
                    /\ rec.pc = "done" /\ rec.status \in {200, 402})
            => /\ allowed = Min(N, K)
               /\ denied = N - Min(N, K)
               /\ users[i].free_credits = Max(0, K - allowed)

\* C3: a webhook request whose signature verification fails (answered 400)
\* changes no account, whatever kind and customer its payload claims.
C3_UnverifiedWebhookChangesNothing ==
    [][(\E new \in BagToSet(reqs') :
            new.kind = "webhook" /\ new.status = 400 /\ Became(new))
       => users' = users /\ committed' = committed]_vars

\* an unverified payment-completed payload naming the customer of a
\* registered, unsubscribed account has been answered 400
C3_Witness ==
    \E rec \in BagToSet(reqs) :
        /\ rec.kind = "webhook" /\ rec.status = 400
        /\ rec.customer_id \in CustomerIds
        /\ Registered(CustomerEmail(rec.customer_id))
        /\ Account(CustomerEmail(rec.customer_id)).subscribed = 0

\* the exceptions of a failed external generation step (lines 120-126)
GenerationFailures == {"OpenAIError", "JSONDecodeError"}

\* C4: a generate request whose external generation step fails (the call
\* raises, or its output is not JSON) changes no account's free_credits and
\* appends no row to blogs: none of its steps, from the SELECT to the
\* failing step, writes anything.
C4_FailedGenerationIsFree ==
    [][\A new \in BagToSet(reqs') :
           (/\ new.kind = "generate" /\ Became(new)
            /\ \/ new.pc \in {"gen_fetch", "gen_call"}
               \/ new.error \in GenerationFailures)
           => users' = users /\ blogs' = blogs /\ committed' = committed]_vars

\* for a non-subscribed account with credits left, one request has failed
\* in the generation call and one on its output, and nothing was written
C4_Witness ==
    \E rec1, rec2 \in BagToSet(reqs) :
        /\ rec1.kind = "generate" /\ rec1.error = "OpenAIError"
        /\ rec2.kind = "generate" /\ rec2.error = "JSONDecodeError"
        /\ rec1.email = rec2.email
        /\ Registered(rec1.email)
        /\ Account(rec1.email).subscribed = 0
        /\ Account(rec1.email).free_credits > 0
        /\ users = start.users /\ blogs = start.blogs

\* C5: once an account is subscribed no step of any generate request
\* changes that account's free_credits.
C5_SubscribedCreditsUntouched ==
    [][\A rec \in Running :
           (rec.kind = "generate" /\ Stepped(rec))
           => \A i \in DOMAIN users :
                  users[i].subscribed = 1
                  => users'[i].free_credits = users[i].free_credits]_vars

\* the requests received are N checkout requests of one account, no other
\* request (in particular no webhook), and all were answered 200
OnlyCheckouts(email, N) ==
    /\ BagCardinality(reqs) = N
    /\ \A rec \in BagToSet(reqs) :
           /\ rec.kind = "checkout" /\ rec.email = email
           /\ rec.pc = "done" /\ rec.status = 200

\* C6: two checkout requests of an account that had no stripe_customer_id,
\* with no webhook in between, in any interleaving: exactly one customer is
\* created at the provider and both sessions use that customer.
C6_OneCustomerForTwoCheckouts ==
    \A i \in DOMAIN start.users :
        (/\ start.users[i].stripe_customer_id = NULL
         /\ OnlyCheckouts(start.users[i].email, 2))
        => /\ Len(stripeCustomers) = Len(start.customers) + 1
           /\ \A rec \in BagToSet(reqs) :
                  rec.customer_id = users[i].stripe_customer_id

\* C7: stripe_customer_id changes only from NULL to a value: a value it
\* holds is never overwritten.
\* (While the requests received are checkout requests of that account.)
C7_CustomerRefNeverOverwritten ==
    [][\A i \in DOMAIN users :
           (/\ users[i].stripe_customer_id # NULL
            /\ \A rec \in BagToSet(reqs) :
                   rec.kind = "checkout" /\ rec.email = users[i].email)
           => users'[i].stripe_customer_id = users[i].stripe_customer_id]_vars

\* a verified payment-completed event that has been processed (answered
\* 200): only that branch retrieves the customer and so knows its email
Applied(rec) ==
    /\ rec.kind = "webhook" /\ rec.pc = "done" /\ rec.status = 200
    /\ rec.email # ""

\* C8: once a verified payment-completed event that references the stored
\* stripe_customer_id of an account (stored by that account's checkout) has
\* been processed, the account is subscribed.
C8_PaidAccountIsSubscribed ==
    \A rec \in BagToSet(reqs) : \A i \in DOMAIN users :
        (Applied(rec) /\ rec.customer_id = users[i].stripe_customer_id)
        => users[i].subscribed = 1 /\ committed.users[i].subscribed = 1

\* an account without customer and subscription ran checkout, the event of
\* that checkout's customer was processed, and the account is subscribed
C8_Witness ==
    \E rec, co \in BagToSet(reqs) : \E i \in DOMAIN start.users :
        /\ start.users[i].stripe_customer_id = NULL
        /\ start.users[i].subscribed = 0
        /\ start.users[i].free_credits = 0
        /\ co.kind = "checkout" /\ co.status = 200
        /\ co.email = users[i].email
        /\ Applied(rec) /\ rec.customer_id = co.customer_id
        /\ rec.customer_id = users[i].stripe_customer_id
        /\ users[i].subscribed = 1

\* C9: a generate request is not answered 402 when the account it runs for
\* is subscribed at the time of its entitlement check.
C9_SubscriberNeverDenied ==
    [][\A rec \in Running :
           (/\ rec.pc = "gen_fetch" /\ Stepped(rec)
            /\ Registered(rec.email)
            /\ Account(rec.email).subscribed = 1)
           => \A new \in BagToSet(reqs') :
                  Became(new) => new.status # 402]_vars

\* a users table in which the accounts with this email are subscribed and
\* nothing else differs
SubscribedIn(table, email) ==
    [i \in DOMAIN table |->
       IF table[i].email = email
       THEN [email |-> table[i].email, password |-> table[i].password,
             subscribed |-> 1, free_credits |-> table[i].free_credits,
             stripe_customer_id |-> table[i].stripe_customer_id]
       ELSE table[i]]

\* the requests received are deliveries of one verified payment-completed
\* event (customer c), all of them processed
OnlyDeliveries(c) ==
    /\ BagCardinality(reqs) >= 1
    /\ \A rec \in BagToSet(reqs) : Applied(rec) /\ rec.customer_id = c

\* C10: however often one verified payment-completed event is delivered
\* and applied (once, or again, one after the other or concurrently), the
\* accounts end in the same state: the target account subscribed, and no
\* other change to users or blogs.
C10_RedeliveryIsIdempotent ==
    \A c \in CustomerIds :
        OnlyDeliveries(c)
        => /\ users = SubscribedIn(start.users, CustomerEmail(c))
           /\ blogs = start.blogs
           /\ committed = [users |-> users, blogs |-> blogs]
           /\ stripeCustomers = start.customers

\* the event of an unsubscribed account's customer was applied twice
C10_Witness ==
    \E c \in CustomerIds :
        /\ OnlyDeliveries(c)
        /\ BagCardinality(reqs) = 2
        /\ \E i \in DOMAIN start.users :
               /\ start.users[i].email = CustomerEmail(c)
               /\ start.users[i].subscribed = 0
               /\ users[i].subscribed = 1

\* C11: the subscribed flag is monotone: no request (register, login,
\* generate, checkout, webhook, in any interleaving) takes an account that
\* is subscribed back to not subscribed.
C11_SubscribedIsMonotone ==
    [][\A i \in DOMAIN users :
           users[i].subscribed = 1
           => i \in DOMAIN users' /\ users'[i].subscribed = 1]_vars

\* an account that was not subscribed at first is subscribed by a webhook,
\* and a generate request that read its row before that has charged it
\* afterwards: the account is still subscribed
C11_Witness ==
    \E i \in DOMAIN start.users :
        /\ start.users[i].subscribed = 0
        /\ users[i].subscribed = 1
        /\ users[i].free_credits < start.users[i].free_credits
        /\ \E rec \in BagToSet(reqs) :
               Applied(rec) /\ rec.email = users[i].email

\* C12: for a non-subscribed account, a generation's blogs row and its
\* charge become durable together: no commit on the shared connection
\* happens while a generate request has written its row (line 128) and not
\* yet its charge (line 134).
C12_RecordAndChargeCommitTogether ==
    [][committed' # committed
       => \A rec \in BagToSet(reqs') :
              ~(rec.kind = "generate" /\ rec.pc = "gen_update")]_vars

\* the requests received are one successful registration of email followed
\* by generate requests for it, one at a time, all answered 200 or 402 (none
\* arrived before the registration: 404; no generation failed: 500)
RegisteredThenGenerates(email) ==
    /\ \A rec \in BagToSet(reqs) : rec.email = email /\ rec.pc = "done"
    /\ Count(LAMBDA x : x.kind = "register" /\ x.status = 200) = 1
    /\ Count(LAMBDA x : x.kind = "generate" /\ x.status \in {200, 402})
           = BagCardinality(reqs) - 1

\* C13: a newly registered account has 3 credits and is not subscribed; of
\* the N <= 4 generate requests that follow one after the other, the first
\* three are answered 200 and leave free_credits at 2, 1, 0, and the fourth
\* is answered 402.
C13_ThreeFreeThenDenied ==
    \A email \in Emails :
        LET N == BagCardinality(reqs) - 1
            allowed == Count(LAMBDA x : x.kind = "generate" /\ x.status = 200)
            denied == Count(LAMBDA x : x.kind = "generate" /\ x.status = 402)
        IN  RegisteredThenGenerates(email)
            => /\ Registered(email)
               /\ Account(email).subscribed = 0
               /\ allowed = Min(N, DefaultCredits)
               /\ denied = N - Min(N, DefaultCredits)
               /\ Account(email).free_credits = DefaultCredits - allowed
               /\ committed.users = users
               /\ Len(blogs) = allowed

\* a registration and four generate requests have been answered: three
\* with 200, the last with 402
C13_Witness ==
    /\ RegisteredThenGenerates("a")
    /\ Count(LAMBDA x : x.kind = "generate" /\ x.status = 200) = 3
    /\ Count(LAMBDA x : x.kind = "generate" /\ x.status = 402) = 1
    /\ Account("a").free_credits = 0

\* a webhook delivery whose signature verified and whose event is not
\* checkout.session.completed
VerifiedOtherKind(rec) ==
    /\ rec.kind = "webhook" /\ rec.signature = "valid"
    /\ rec.event_type # COMPLETED

\* C14: a verified webhook event of another kind than
\* checkout.session.completed is accepted and ignored: the step that
\* handles it answers 200 and changes no account (subscribed, free_credits,
\* stripe_customer_id), neither in the connection nor committed.
C14_OtherKindAcceptedAndIgnored ==
    [][\A new \in BagToSet(reqs') :
           (VerifiedOtherKind(new) /\ Became(new))
           => /\ new.pc = "done" /\ new.status = 200
              /\ users' = users /\ blogs' = blogs
              /\ committed' = committed]_vars

\* a verified event of another kind naming the customer of an account
\* that is not subscribed has been answered 200 and the account still is
\* not subscribed
C14_Witness ==
    \E rec \in BagToSet(reqs) :
        /\ VerifiedOtherKind(rec) /\ rec.pc = "done" /\ rec.status = 200
        /\ rec.customer_id \in CustomerIds
        /\ Registered(CustomerEmail(rec.customer_id))
        /\ Account(CustomerEmail(rec.customer_id)).subscribed = 0
        /\ Account(CustomerEmail(rec.customer_id)).stripe_customer_id
               = rec.customer_id

\* a webhook delivery that has been answered
Answered(rec) == rec.kind = "webhook" /\ rec.pc = "done"

\* C15 as claimed: the webhook endpoint answers 400 exactly when signature
\* verification fails and 200 for every event that passed verification,
\* also when the customer lookup fails or no account matches.
C15_Always200OnceVerified ==
    \A rec \in BagToSet(reqs) :
        Answered(rec)
        => /\ rec.status = 400 <=> rec.signature = "invalid"
           /\ rec.signature = "valid" => rec.status = 200

\* C15 as the code has it: the webhook endpoint answers 400 exactly when
\* signature verification fails; a verified event is answered 200 (other
\* kinds, and payments whether or not an account matches) unless
\* stripe.Customer.retrieve raises, which is answered 500.
C15_400IffUnverified ==
    \A rec \in BagToSet(reqs) :
        Answered(rec)
        => /\ rec.status = 400 <=> rec.signature = "invalid"
           /\ rec.signature = "valid"
              => rec.status = IF rec.error = "StripeError" THEN 500 ELSE 200
           /\ rec.error = "StripeError"
              => rec.event_type = COMPLETED /\ rec.email = ""

\* a payload with a bad signature has been answered 400 and a verified
\* payment-completed event whose customer lookup failed 500
C15_Witness ==
    /\ \E rec \in BagToSet(reqs) :
           Answered(rec) /\ rec.signature = "invalid" /\ rec.status = 400
    /\ \E rec \in BagToSet(reqs) :
           /\ Answered(rec) /\ rec.signature = "valid"
           /\ rec.event_type = COMPLETED /\ rec.status = 500

\* C16: a generate request that is denied at the entitlement check (row
\* fetched with free_credits = 0, not subscribed) is answered 402 without
\* any mutation: neither its SELECT nor the step that answers 402 changes
\* free_credits, subscribed or the blogs rows, and the 402 is returned from
\* the fetch step, before the OpenAI call.
C16_DeniedChangesNothing ==
    [][\A new \in BagToSet(reqs') :
           (/\ new.kind = "generate" /\ Became(new)
            /\ new.pc = "gen_fetch" \/ new.status = 402)
           => /\ users' = users /\ blogs' = blogs /\ committed' = committed
              /\ new.status = 402
                 => \E rec \in BagToSet(reqs) :
                        /\ Stepped(rec) /\ rec.kind = "generate"
                        /\ rec.pc = "gen_fetch" /\ rec.email = new.email]_vars

\* a generate request for an account without credits and not subscribed
\* has been answered 402; tables as they were
C16_Witness ==
    \E rec \in BagToSet(reqs) :
        /\ rec.kind = "generate" /\ rec.status = 402
        /\ Registered(rec.email)
        /\ Denied(Account(rec.email).free_credits,
                  Account(rec.email).subscribed)
        /\ users = start.users /\ blogs = start.blogs
        /\ committed.users = users /\ committed.blogs = blogs

\* a generate request between the fetch of the row its decision rests on
\* (line 98) and its charge (line 134), for an account it read as not
\* subscribed
BetweenCheckAndCharge(rec) ==
    /\ rec.kind = "generate" /\ rec.subscribed = 0
    /\ rec.pc \in {"gen_call", "gen_insert", "gen_update"}

\* C17: in a generate request for a non-subscribed account the entitlement
\* check and the decrement of free_credits are atomic: while the request is
\* between the read its decision rests on and the write of its charge, no
\* step of another request changes the account's free_credits or
\* subscribed.
C17_CheckAndChargeAtomic ==
    [][\A rec \in BagToSet(reqs) :
           (/\ BetweenCheckAndCharge(rec)
            /\ rec \in BagToSet(reqs') /\ CopiesIn(rec, reqs') = CopiesIn(rec, reqs))
           => /\ users'[rec.user_id].free_credits
                     = users[rec.user_id].free_credits
              /\ users'[rec.user_id].subscribed
                     = users[rec.user_id].subscribed]_vars

\* C18: a verified payment-completed event sets subscribed only for the
\* account whose stored stripe_customer_id equals the customer the event
\* carries; when no account has stored it, no account's flag changes.
C18_SubscribesByStoredCustomer ==
    [][\A i \in DOMAIN users :
           (users[i].subscribed = 0 /\ users'[i].subscribed = 1)
           => \E rec \in BagToSet(reqs) :
                  /\ Stepped(rec) /\ rec.kind = "webhook"
                  /\ rec.customer_id = users[i].stripe_customer_id]_vars

\* number of rows of table blogs_table that belong to account i
Generations(blogs_table, i) ==
    Cardinality({k \in DOMAIN blogs_table : blogs_table[k].user_id = i})

\* C19: for every account that has never been subscribed, in every
\* committed state free_credits plus the number of its blogs rows is the
\* initial allowance of 3.
C19_CreditsPlusGenerationsIsAllowance ==
    \A i \in DOMAIN committed.users :
        (committed.users[i].subscribed = 0 /\ users[i].subscribed = 0)
        => committed.users[i].free_credits + Generations(committed.blogs, i)
               = DefaultCredits

\* C20: a generate request authenticated as a registered account A decides
\* on A's own row, appends only blogs rows with A's id and charges only A's
\* free_credits, also when requests of other accounts interleave their
\* execute and fetchone steps on the shared cursor.
C20_GenerateTouchesOwnAccountOnly ==
    [][\A rec \in BagToSet(reqs) :
           (rec.kind = "generate" /\ Stepped(rec) /\ Registered(rec.email))
           => /\ \A new \in BagToSet(reqs') :
                     (Became(new) /\ new.pc = "gen_call")
                     => new.user_id = IdOf(rec.email)
              /\ \A new \in BagToSet(reqs') :
                     (Became(new) /\ new.status = 402)
                     => Denied(Account(rec.email).free_credits,
                               Account(rec.email).subscribed)
              /\ blogs' # blogs
                 => blogs' = Append(blogs, BlogRow(IdOf(rec.email)))
              /\ \A i \in DOMAIN users :
                     users'[i] # users[i] => i = IdOf(rec.email)]_vars

====
